---- MODULE Spec2Model ----
(***************************************************************************)
(* Model of spectralmatch/voronoi_center_seamline.py.                      *)
(*                                                                         *)
(* Geometry.  Footprints come from raster masks (rasterio.features.shapes),*)
(* so they are rectilinear polygons on the pixel grid.  A polygon is the   *)
(* set of the mesh triangles it covers: every unit cell <<i, j>> is cut by *)
(* its two diagonals into four triangles <<i, j, k>>, k = 0 (south),       *)
(* 1 (east), 2 (north), 3 (west).  Area is counted in quarter cells.  A    *)
(* LineString is a sequence of integer points; a segment that is           *)
(* axis-aligned or at 45 degrees runs along mesh edges, so splitting a     *)
(* polygon by it is exact on the mesh.                                     *)
(***************************************************************************)
EXTENDS Integers, Sequences, FiniteSets, TLC

VARIABLES
    paths, masks,                        \* the input files and the polygons each mask holds
    emps, crs, cuts, segmented,          \* locals of voronoi_center_seamline
    opened, records,                     \* the output file: opened, the records written
    pc, perr, pk, calls,                 \* position, exception raised, loop index, calls of _compute_centerline
    ca, cb, cdist, cminlen, cres,        \* _compute_centerline: arguments, outcome
    dcoords, ddist, di, dense,           \* _densify_polygon: ring, spacing, next segment, samples
    emp, emp0, ci,                       \* _segment_emp: current polygon, its argument, cuts applied
    iemp, icuts, ires1, ires2, ipc       \* two successive _segment_emp calls on one cut list

segVars == <<emp, emp0, ci>>
idemVars == <<iemp, icuts, ires1, ires2, ipc>>
pipeVars == <<paths, masks, emps, crs, cuts, segmented, opened, records, pc, perr, pk, calls>>
cenVars == <<ca, cb, cdist, cminlen, cres>>
denVars == <<dcoords, ddist, di, dense>>
vars == <<pipeVars, cenVars, denVars, segVars, idemVars>>

\* ---------------------------------------------------------------- bounds
GridN == 2
MaxCuts == 3
MaxDist == 2
MaxImages == 2
MaxGeoms == 2
MaxMinLen == 1

\* ------------------------------------------------------ geometry kernel
Abs(n) == IF n < 0 THEN -n ELSE n
Min2(a, b) == IF a <= b THEN a ELSE b
Max2(a, b) == IF a >= b THEN a ELSE b

Rect(x0, y0, x1, y1) == [x0 |-> x0, y0 |-> y0, x1 |-> x1, y1 |-> y1]

\* corner n of cell <<i, j>>: 0 SW, 1 SE, 2 NE, 3 NW
Corner(i, j, n) ==
    CASE n = 0 -> <<i, j>>
      [] n = 1 -> <<i + 1, j>>
      [] n = 2 -> <<i + 1, j + 1>>
      [] n = 3 -> <<i, j + 1>>

\* the triangles covered by an axis-parallel rectangle
Atoms(r) == {<<i, j, k>> : i \in r.x0 .. (r.x1 - 1), j \in r.y0 .. (r.y1 - 1), k \in 0 .. 3}

\* the two integer vertices of a triangle (its third vertex is the cell centre)
AtomCorners(t) == {Corner(t[1], t[2], t[3]), Corner(t[1], t[2], (t[3] + 1) % 4)}

\* the triangle across the outer (cell) edge of t
Across(t) ==
    CASE t[3] = 0 -> <<t[1], t[2] - 1, 2>>
      [] t[3] = 1 -> <<t[1] + 1, t[2], 3>>
      [] t[3] = 2 -> <<t[1], t[2] + 1, 0>>
      [] t[3] = 3 -> <<t[1] - 1, t[2], 1>>

\* the neighbours of t, each with the mesh edge (pair of integer points) that
\* separates it from t: the cell edge, or the cell diagonal through the shared corner
Links(t) ==
    LET i == t[1]
        j == t[2]
        k == t[3]
    IN  { [to |-> Across(t), w |-> <<Corner(i, j, k), Corner(i, j, (k + 1) % 4)>>],
          [to |-> <<i, j, (k + 1) % 4>>, w |-> <<Corner(i, j, (k + 1) % 4), Corner(i, j, (k + 3) % 4)>>],
          [to |-> <<i, j, (k + 3) % 4>>, w |-> <<Corner(i, j, k), Corner(i, j, (k + 2) % 4)>>] }

\* point c lies on the closed segment p-q
OnSeg(c, p, q) ==
    /\ (q[1] - p[1]) * (c[2] - p[2]) = (q[2] - p[2]) * (c[1] - p[1])
    /\ Min2(p[1], q[1]) <= c[1] /\ c[1] <= Max2(p[1], q[1])
    /\ Min2(p[2], q[2]) <= c[2] /\ c[2] <= Max2(p[2], q[2])

OnLine(c, ln) == \E k \in 1 .. (Len(ln) - 1) : OnSeg(c, ln[k], ln[k + 1])

\* the mesh edge w is part of the line
Covers(ln, w) == \E k \in 1 .. (Len(ln) - 1) : OnSeg(w[1], ln[k], ln[k + 1]) /\ OnSeg(w[2], ln[k], ln[k + 1])

\* a segment the mesh represents exactly
MeshSegment(p, q) == p # q /\ (p[1] = q[1] \/ p[2] = q[2] \/ Abs(p[1] - q[1]) = Abs(p[2] - q[2]))

Area(poly) == Cardinality(poly)

\* shapely: emp.intersects(ln), the closed polygon and the line share a point
Intersects(poly, ln) == \E t \in poly : \E c \in AtomCorners(t) : OnLine(c, ln)

\* the triangles of poly reachable from those seen without crossing the line
RECURSIVE Flood(_, _, _, _)
Flood(seen, frontier, poly, ln) ==
    IF frontier = {} THEN seen
    ELSE LET nxt == {l.to : l \in {l \in UNION {Links(t) : t \in frontier} :
                                     l.to \in poly /\ l.to \notin seen /\ ~Covers(ln, l.w)}}
         IN  Flood(seen \cup nxt, nxt, poly, ln)

RECURSIVE Faces(_, _, _)
Faces(rest, poly, ln) ==
    IF rest = {} THEN {}
    ELSE LET t == CHOOSE t \in rest : TRUE
             f == Flood({t}, {t}, poly, ln)
         IN  {f} \cup Faces(rest \ f, poly, ln)

\* shapely.ops.split(emp, ln).geoms: the faces of boundary(emp) + ln inside emp
Split(poly, ln) == Faces(poly, poly, ln)

\* --------------------------------------------------- _densify_polygon
\* A sample is <<a, b, n>>, the point (a / n, b / n): line 109 divides by n.
SamePoint(s, v) == s[1] = v[1] * s[3] /\ s[2] = v[2] * s[3]

\* floor of the square root
ISqrt(s) == CHOOSE r \in 0 .. s : r * r <= s /\ s < (r + 1) * (r + 1)

SqDist(p, q) == (q[1] - p[1]) * (q[1] - p[1]) + (q[2] - p[2]) * (q[2] - p[2])

\* faulty variant: n = int(d // dist), without the max(..., 1)
NumSubNoMax(p0, p1, dist) == ISqrt(SqDist(p0, p1)) \div dist

\* lines 106-107: d = sqrt(dx^2 + dy^2); n = max(int(d // dist), 1), dist a positive integer
NumSub(p0, p1, dist) == Max2(ISqrt(SqDist(p0, p1)) \div dist, 1)

\* lines 108-109: the samples of one ring segment, j = 0 .. n - 1
SegmentSamples(p0, p1, dist) ==
    LET n == NumSub(p0, p1, dist)
    IN  [j \in 1 .. n |-> <<p0[1] * n + (p1[1] - p0[1]) * (j - 1), p0[2] * n + (p1[2] - p0[2]) * (j - 1), n>>]

\* _densify_polygon(poly, dist) on the ring coords = list(poly.exterior.coords)
RECURSIVE DensifyFrom(_, _, _)
DensifyFrom(coords, k, dist) ==
    IF k >= Len(coords) THEN <<>>
    ELSE SegmentSamples(coords[k], coords[k + 1], dist) \o DensifyFrom(coords, k + 1, dist)

DensifyPolygon(coords, dist) == DensifyFrom(coords, 1, dist)

NoRect == Rect(1, 1, 0, 0)

\* ------------------------------------------------- _compute_centerline
\* Footprints are axis-parallel rectangles with integer corners here.
\* a.intersection(b): the common rectangle, which may be flat (the footprints only
\* touch) or empty (x0 > x1 or y0 > y1)
Overlap(a, b) == Rect(Max2(a.x0, b.x0), Max2(a.y0, b.y0), Min2(a.x1, b.x1), Min2(a.y1, b.y1))

IsEmpty(o) == o.x0 > o.x1 \/ o.y0 > o.y1

GeomType(o) ==
    IF IsEmpty(o) THEN "Empty"
    ELSE IF o.x0 = o.x1 /\ o.y0 = o.y1 THEN "Point"
    ELSE IF o.x0 = o.x1 \/ o.y0 = o.y1 THEN "LineString"
    ELSE "Polygon"

\* list(poly.exterior.coords) of a rectangle: its closed ring
Exterior(o) == <<<<o.x0, o.y0>>, <<o.x0, o.y1>>, <<o.x1, o.y1>>, <<o.x1, o.y0>>, <<o.x0, o.y0>>>>

OnPerimeter(c, r) ==
    \/ c[1] \in {r.x0, r.x1} /\ r.y0 <= c[2] /\ c[2] <= r.y1
    \/ c[2] \in {r.y0, r.y1} /\ r.x0 <= c[1] /\ c[1] <= r.x1

\* the unit edge from c to c + <<dx, dy>> runs along a side of r
EdgeOnPerimeter(c, dx, dy, r) ==
    LET e == <<c[1] + dx, c[2] + dy>>
    IN  \/ dx # 0 /\ c[2] \in {r.y0, r.y1} /\ r.x0 <= Min2(c[1], e[1]) /\ Max2(c[1], e[1]) <= r.x1
        \/ dy # 0 /\ c[1] \in {r.x0, r.x1} /\ r.y0 <= Min2(c[2], e[2]) /\ Max2(c[2], e[2]) <= r.y1

\* the Point members of a.boundary.intersection(b.boundary): the points the two
\* boundaries share that lie on no stretch of boundary they share
BoundaryPoints(a, b) ==
    {c \in (Max2(a.x0, b.x0) .. Min2(a.x1, b.x1)) \X (Max2(a.y0, b.y0) .. Min2(a.y1, b.y1)) :
        /\ OnPerimeter(c, a) /\ OnPerimeter(c, b)
        /\ \A d \in {<<1, 0>>, <<-1, 0>>, <<0, 1>>, <<0, -1>>} :
              ~(EdgeOnPerimeter(c, d[1], d[2], a) /\ EdgeOnPerimeter(c, d[1], d[2], b))}

\* the orders in which a geometry collection may list the points of s
Orderings(s) ==
    {f \in [1 .. Cardinality(s) -> s] : \A i \in 1 .. Cardinality(s) : \A j \in 1 .. Cardinality(s) : f[i] = f[j] => i = j}

\* line 142: the key computes p[0] - p[1] on p = (point, point), a tuple minus a
\* tuple, which Python does not define: max raises TypeError on the first pair, and
\* ValueError when there is no pair at all
FarthestPair(pts) == IF Len(pts) < 2 THEN "ValueError" ELSE "TypeError"

\* a geom of the Voronoi diagram: a cell polygon, or a two-point LineString
PolygonGeom == [type |-> "Polygon", coords |-> <<>>]
LineGeom(p, q) == [type |-> "LineString", coords |-> <<p, q>>]

\* seg.length of an axis-parallel two-point line <<p, q>>
SegLength(e) == Abs(e[1][1] - e[2][1]) + Abs(e[1][2] - e[2][2])

\* lines 125-128: the edges (seg.coords[0], seg.coords[-1]) added to G, in order
GraphEdges(multi, min_cut_length) ==
    LET kept == SelectSeq(multi, LAMBDA g : g.type = "LineString" /\ SegLength(g.coords) >= min_cut_length)
    IN  [k \in 1 .. Len(kept) |-> kept[k].coords]

\* list(G.nodes()): the end points of the edges, in the order they were first added
RECURSIVE NodeList(_)
NodeList(edges) ==
    IF edges = <<>> THEN <<>>
    ELSE LET front == NodeList(SubSeq(edges, 1, Len(edges) - 1))
             e == edges[Len(edges)]
             have == {front[k] : k \in 1 .. Len(front)}
             withP == IF e[1] \in have THEN front ELSE Append(front, e[1])
         IN  IF e[2] \in have \/ e[2] = e[1] THEN withP ELSE Append(withP, e[2])

\* min(nodes, key=squared distance to p): the first of the nearest nodes
Nearest(nodes, p) ==
    LET k == CHOOSE k \in 1 .. Len(nodes) :
                 /\ \A m \in 1 .. Len(nodes) : SqDist(nodes[k], p) <= SqDist(nodes[m], p)
                 /\ \A m \in 1 .. (k - 1) : SqDist(nodes[m], p) > SqDist(nodes[k], p)
    IN  nodes[k]

\* the simple paths of G from the end of path to the node to
RECURSIVE PathsFrom(_, _, _)
PathsFrom(path, to, edges) ==
    LET here == path[Len(path)]
        seen == {path[k] : k \in 1 .. Len(path)}
        next == {n \in {edges[k][1] : k \in 1 .. Len(edges)} \cup {edges[k][2] : k \in 1 .. Len(edges)} :
                    /\ n \notin seen
                    /\ \E k \in 1 .. Len(edges) : {edges[k][1], edges[k][2]} = {here, n}}
    IN  IF here = to THEN {path}
        ELSE UNION {PathsFrom(Append(path, n), to, edges) : n \in next}

\* weight of the edge between two adjacent nodes: add_edge overwrites, the last one added counts
EdgeWeight(m, n, edges) ==
    LET k == CHOOSE k \in 1 .. Len(edges) :
                 /\ {edges[k][1], edges[k][2]} = {m, n}
                 /\ \A j \in (k + 1) .. Len(edges) : {edges[j][1], edges[j][2]} # {m, n}
    IN  SegLength(edges[k])

RECURSIVE PathWeight(_, _)
PathWeight(path, edges) ==
    IF Len(path) < 2 THEN 0
    ELSE EdgeWeight(path[1], path[2], edges) + PathWeight(Tail(path), edges)

\* nx.shortest_path(G, start, end, weight): the paths of least weight (which of
\* several is returned is Dijkstra's business); none when end cannot be reached
ShortestPaths(start, end, edges) ==
    LET all == PathsFrom(<<start>>, end, edges)
    IN  {q \in all : \A r \in all : PathWeight(q, edges) <= PathWeight(r, edges)}

\* how a call ended, with the locals coords, u and v (NoPoint while unassigned)
NoPoint == <<>>
Raised(exc, coords, u, v) ==
    [kind |-> "raise", exc |-> exc, line |-> <<>>, coords |-> coords, u |-> u, v |-> v, how |-> "raise"]
Returned(line, coords, u, v, how) ==
    [kind |-> "LineString", exc |-> "", line |-> line, coords |-> coords, u |-> u, v |-> v, how |-> how]
NotCalled == [kind |-> "none", exc |-> "", line |-> <<>>, coords |-> <<>>, u |-> NoPoint, v |-> NoPoint, how |-> ""]

\* _compute_centerline(a, b, dist_min, min_cut_length): what the call can end in,
\* given the geoms voronoi_diagram returned and the order in which the boundary
\* intersection lists its points
ComputeCenterline(a, b, dist_min, min_cut_length, multi, coords) ==
    LET voa == Overlap(a, b)
        type == GeomType(voa)
        pts == IF type = "Empty" THEN <<>> ELSE DensifyPolygon(Exterior(voa), dist_min)
        edges == GraphEdges(multi, min_cut_length)
        nodes == NodeList(edges)
        u == coords[1]
        v == coords[2]
        start == Nearest(nodes, u)
        end == Nearest(nodes, v)
        best == ShortestPaths(start, end, edges)
    IN  \* line 122: a Point or LineString has no exterior
        IF type \in {"Point", "LineString"} THEN {Raised("AttributeError", <<>>, NoPoint, NoPoint)}
        \* lines 139-142
        ELSE IF Len(coords) < 2 THEN {Raised(FarthestPair(pts), coords, NoPoint, NoPoint)}
        \* lines 143-146
        ELSE IF nodes = <<>> THEN {Returned(<<u, v>>, coords, u, v, "empty graph")}
        \* lines 155-157
        ELSE IF best = {} THEN {Returned(<<u, v>>, coords, u, v, "no path")}
        \* lines 153-154: LineString(path) needs two points; start = end gives a path of one
        ELSE {IF Len(q) < 2 THEN Raised("GEOSException", coords, u, v)
                             ELSE Returned(q, coords, u, v, "path") : q \in best}

\* what voronoi_diagram may return for the samples of the overlap: up to MaxGeoms
\* geoms, each a cell polygon or a ridge along a side of the overlap's envelope
VoronoiGeoms(o) ==
    {PolygonGeom, LineGeom(<<o.x0, o.y0>>, <<o.x1, o.y0>>), LineGeom(<<o.x0, o.y1>>, <<o.x1, o.y1>>),
     LineGeom(<<o.x0, o.y0>>, <<o.x0, o.y1>>), LineGeom(<<o.x1, o.y0>>, <<o.x1, o.y1>>)}

VoronoiOutputs(o) ==
    IF GeomType(o) # "Polygon" THEN {<<>>}
    ELSE UNION {[1 .. n -> VoronoiGeoms(o)] : n \in 0 .. MaxGeoms}

\* ------------------------------------------------------- _segment_emp
\* max(pieces, key=area): the pieces of largest area; which of several equal ones
\* comes first is the order polygonize returns them in
MaxPieces(pieces) == {p \in pieces : \A q \in pieces : Area(q) <= Area(p)}

\* faulty variant: the original footprint is split, not the polygon reduced so far
SegmentCutOfOriginal(poly, ln) ==
    IF Intersects(poly, ln) THEN MaxPieces(Split(emp0, ln)) ELSE {poly}

\* faulty variant: what the largest piece leaves is kept, not the largest piece
SegmentCutKeepsRest(poly, ln) ==
    IF Intersects(poly, ln) THEN {poly \ p : p \in MaxPieces(Split(poly, ln))} ELSE {poly}

\* one iteration of the loop (lines 167-170): the polygons emp can become
SegmentCut(poly, ln) ==
    IF Intersects(poly, ln) THEN MaxPieces(Split(poly, ln)) ELSE {poly}

\* _segment_emp(emp, cuts): the polygons it can return
RECURSIVE SegmentEmp(_, _)
SegmentEmp(poly, lines) ==
    IF lines = <<>> THEN {poly}
    ELSE UNION {SegmentEmp(p, Tail(lines)) : p \in SegmentCut(poly, Head(lines))}

\* ---------------------------------------------- voronoi_center_seamline
\* faulty variant: a mask without polygons yields an empty polygon instead of raising
SeamlineMaskNoCheck(polys) ==
    IF polys = <<>> THEN [kind |-> "Polygon", exc |-> "", poly |-> NoRect]
    ELSE [kind |-> "Polygon", exc |-> "",
          poly |-> polys[CHOOSE k \in 1 .. Len(polys) : \A m \in 1 .. Len(polys) : Area(Atoms(polys[m])) <= Area(Atoms(polys[k]))]]

\* _seamline_mask: the first polygon of largest area, ValueError when there is none
SeamlineMask(polys) ==
    IF polys = <<>> THEN [kind |-> "raise", exc |-> "ValueError", poly |-> NoRect]
    ELSE [kind |-> "Polygon", exc |-> "",
          poly |-> polys[CHOOSE k \in 1 .. Len(polys) :
                            /\ \A m \in 1 .. Len(polys) : Area(Atoms(polys[m])) <= Area(Atoms(polys[k]))
                            /\ \A m \in 1 .. (k - 1) : Area(Atoms(polys[m])) < Area(Atoms(polys[k]))]]

\* faulty variant: the emptiness test of line 55 is dropped
HasOverlapAlways(a, b) == TRUE

\* lines 53-55: ov = a.intersection(b); not ov.is_empty
HasOverlap(a, b) == ~IsEmpty(Overlap(a, b))

\* combinations(range(n), 2), in order
PairList(n) ==
    LET ps == {<<i, j>> : i \in 1 .. n, j \in 1 .. n}
        lt == {q \in ps : q[1] < q[2]}
        rank(q) == Cardinality({r \in lt : r[1] < q[1] \/ (r[1] = q[1] /\ r[2] < q[2])})
    IN  [k \in 1 .. Cardinality(lt) |-> CHOOSE q \in lt : rank(q) = k - 1]

\* os.path.splitext(os.path.basename(img))[0]
ImageName(path) == path.stem

\* keyword defaults of voronoi_center_seamline
DistMinDefault == 10
MinCutLengthDefault == 0

\* --------------------------------------------------------------- inputs
\* the footprints of the runs: a large square, and rectangles that overlap it at a
\* corner, reach into it across one side, lie inside it, overlap it along shared
\* sides, touch it along a side or at a corner, cross one another, or lie apart
Footprints ==
    {Rect(0, 0, 3, 3), Rect(2, 2, 4, 4), Rect(1, 1, 2, 4), Rect(1, 1, 2, 2), Rect(3, 0, 5, 1),
     Rect(4, 0, 5, 1), Rect(2, 0, 4, 2), Rect(0, 1, 3, 2), Rect(1, 0, 2, 3)}

GridPoints == (0 .. GridN) \X (0 .. GridN)
PointLess(p, q) == p[1] < q[1] \/ (p[1] = q[1] /\ p[2] < q[2])
\* two-point lines the mesh represents, one per unordered pair of grid points
CutLines == {l \in {<<p, q>> : p \in GridPoints, q \in GridPoints} : MeshSegment(l[1], l[2]) /\ PointLess(l[1], l[2])}

\* --------------------------------------- specification: _densify_polygon
PipeIdle ==
    /\ paths = <<>> /\ masks = <<>> /\ emps = <<>> /\ crs = "None" /\ cuts = <<>> /\ segmented = <<>>
    /\ opened = FALSE /\ records = <<>> /\ pc = "idle" /\ perr = "" /\ pk = 1 /\ calls = 0
CenIdle == ca = NoRect /\ cb = NoRect /\ cdist = 1 /\ cminlen = 0 /\ cres = NotCalled
DenIdle == dcoords = <<>> /\ ddist = 1 /\ di = 1 /\ dense = <<>>
SegIdle == emp = {} /\ emp0 = {} /\ ci = 0
IdemIdle == iemp = {} /\ icuts = <<>> /\ ires1 = {} /\ ires2 = {} /\ ipc = "idle"

\* a closed ring of three vertices; consecutive vertices may coincide
DenInit ==
    /\ dcoords \in {<<p, q, r, p>> : p \in GridPoints, q \in GridPoints, r \in GridPoints}
    /\ ddist \in 1 .. MaxDist
    /\ di = 1
    /\ dense = <<>>
    /\ SegIdle /\ IdemIdle /\ CenIdle /\ PipeIdle

\* one iteration of the loop over zip(coords, coords[1:])
DenStep ==
    /\ di < Len(dcoords)
    /\ dense' = dense \o SegmentSamples(dcoords[di], dcoords[di + 1], ddist)
    /\ di' = di + 1
    /\ UNCHANGED <<dcoords, ddist, segVars, idemVars, cenVars, pipeVars>>

DenNext == DenStep
SpecDensify == DenInit /\ [][DenNext]_vars

\* the whole number k with k * d <= L < (k + 1) * d, L the length of p-q, or 1 when L < d
IsSampleCount(k, p, q, d) ==
    IF SqDist(p, q) < d * d THEN k = 1
    ELSE k * k * d * d <= SqDist(p, q) /\ SqDist(p, q) < (k + 1) * (k + 1) * d * d

\* (C7) Sampling density as claimed: each ring segment of length L adds exactly
\* max(floor(L / d), 1) samples, the first is the segment's start vertex, none is its
\* end vertex, and in the end there are at least as many samples as ring segments.
SamplingDensity ==
    /\ [][(di' = di + 1) =>
            /\ IsSampleCount(Len(dense') - Len(dense), dcoords[di], dcoords[di + 1], ddist)
            /\ SamePoint(dense'[Len(dense) + 1], dcoords[di])
            /\ \A k \in (Len(dense) + 1) .. Len(dense') : ~SamePoint(dense'[k], dcoords[di + 1])]_vars
    /\ [](di = Len(dcoords) => Len(dense) >= Len(dcoords) - 1)

\* (C7, amended) Each ring segment of length L adds exactly max(floor(L / d), 1)
\* samples, the first is the segment's start vertex, none is its end vertex unless
\* the segment has length zero, and in the end there are at least as many samples
\* as ring segments.
SamplingDensityNonZero ==
    /\ [][(di' = di + 1) =>
            /\ IsSampleCount(Len(dense') - Len(dense), dcoords[di], dcoords[di + 1], ddist)
            /\ SamePoint(dense'[Len(dense) + 1], dcoords[di])
            /\ (dcoords[di] # dcoords[di + 1] =>
                  \A k \in (Len(dense) + 1) .. Len(dense') : ~SamePoint(dense'[k], dcoords[di + 1]))]_vars
    /\ [](di = Len(dcoords) => Len(dense) >= Len(dcoords) - 1)

\* a ring with a zero-length segment and a segment of several samples, fully sampled
DensifiedRing ==
    /\ dcoords # <<>> /\ di = Len(dcoords)
    /\ \E k \in 1 .. (Len(dcoords) - 1) : dcoords[k] = dcoords[k + 1]
    /\ \E k \in 1 .. (Len(dcoords) - 1) : NumSub(dcoords[k], dcoords[k + 1], ddist) >= 2

\* ------------------------------------------- specification: _segment_emp
SegInit ==
    /\ emp0 = Atoms(Rect(0, 0, GridN, GridN))
    /\ emp = emp0
    /\ ci = 0
    /\ IdemIdle /\ DenIdle /\ CenIdle /\ PipeIdle

\* one iteration of the loop over cuts; the list is read one cut at a time
SegStep ==
    /\ ci < MaxCuts
    /\ \E ln \in CutLines : emp' \in SegmentCut(emp, ln)
    /\ ci' = ci + 1
    /\ UNCHANGED <<emp0, idemVars, denVars, cenVars, pipeVars>>

SegNext == SegStep
SpecSegment == SegInit /\ [][SegNext]_vars

\* (C3) Segmentation monotonicity: whatever cuts _segment_emp has processed, the
\* area of the current polygon is at most the area of the polygon it was given, and
\* no cut step increases the area of the current polygon.
SegmentationMonotone ==
    /\ [](Area(emp) <= Area(emp0))
    /\ [][Area(emp') <= Area(emp)]_vars

\* a second cut has been applied and the polygon has lost area
SegmentationShrunk == ci >= 2 /\ Area(emp) < Area(emp0)

\* ------------------------------------ specification: voronoi_center_seamline
\* the polygons a mask may hold: none, one footprint, or a footprint and a speck
Speck == Rect(6, 6, 7, 7)
Masks == {<<>>} \cup {<<r>> : r \in Footprints} \cup {<<Speck, Rect(0, 0, 3, 3)>>, <<Rect(2, 2, 4, 4), Speck>>}

Init ==
    /\ \E n \in 1 .. MaxImages :
          /\ paths = [k \in 1 .. n |-> [dir |-> "in", stem |-> k, ext |-> ".tif"]]
          /\ masks \in [1 .. n -> Masks]
    /\ emps = <<>> /\ crs = "None" /\ cuts = <<>> /\ segmented = <<>>
    /\ opened = FALSE /\ records = <<>> /\ pc = "read" /\ perr = "" /\ pk = 1 /\ calls = 0
    /\ SegIdle /\ IdemIdle /\ DenIdle /\ CenIdle

Quiet == UNCHANGED <<paths, masks, cenVars, denVars, segVars, idemVars>>

\* lines 40-46, one path: the mask is read and its footprint extracted
ReadMask ==
    /\ pc = "read" /\ pk <= Len(paths)
    /\ SeamlineMask(masks[pk]).kind = "Polygon"
    /\ emps' = Append(emps, SeamlineMask(masks[pk]).poly)
    /\ crs' = IF crs = "None" THEN "crs of the first mask" ELSE crs
    /\ pk' = pk + 1
    /\ UNCHANGED <<cuts, segmented, opened, records, pc, perr, calls>> /\ Quiet

\* line 92 raises: the call ends here
ReadMaskRaises ==
    /\ pc = "read" /\ pk <= Len(paths)
    /\ SeamlineMask(masks[pk]).kind = "raise"
    /\ pc' = "error" /\ perr' = SeamlineMask(masks[pk]).exc
    /\ UNCHANGED <<emps, crs, pk, cuts, segmented, opened, records, calls>> /\ Quiet

ReadDone ==
    /\ pc = "read" /\ pk > Len(paths)
    /\ pc' = "cuts" /\ pk' = 1
    /\ UNCHANGED <<emps, crs, cuts, segmented, opened, records, perr, calls>> /\ Quiet

\* lines 52-57, one pair without overlap
PairApart ==
    /\ pc = "cuts" /\ pk <= Len(PairList(Len(emps)))
    /\ ~HasOverlap(emps[PairList(Len(emps))[pk][1]], emps[PairList(Len(emps))[pk][2]])
    /\ pk' = pk + 1
    /\ UNCHANGED <<emps, crs, cuts, segmented, opened, records, pc, perr, calls>> /\ Quiet

\* lines 52-57, one overlapping pair: its cut is computed and appended
PairCut ==
    /\ pc = "cuts" /\ pk <= Len(PairList(Len(emps)))
    /\ LET a == emps[PairList(Len(emps))[pk][1]]
           b == emps[PairList(Len(emps))[pk][2]]
       IN  /\ HasOverlap(a, b)
           /\ \E multi \in VoronoiOutputs(Overlap(a, b)) : \E coords \in Orderings(BoundaryPoints(a, b)) :
                 \E r \in ComputeCenterline(a, b, DistMinDefault, MinCutLengthDefault, multi, coords) :
                    /\ r.kind = "LineString"
                    /\ cuts' = Append(cuts, r.line)
    /\ pk' = pk + 1 /\ calls' = calls + 1
    /\ UNCHANGED <<emps, crs, segmented, opened, records, pc, perr>> /\ Quiet

\* _compute_centerline raises: the call ends here
PairCutRaises ==
    /\ pc = "cuts" /\ pk <= Len(PairList(Len(emps)))
    /\ LET a == emps[PairList(Len(emps))[pk][1]]
           b == emps[PairList(Len(emps))[pk][2]]
       IN  /\ HasOverlap(a, b)
           /\ \E multi \in VoronoiOutputs(Overlap(a, b)) : \E coords \in Orderings(BoundaryPoints(a, b)) :
                 \E r \in ComputeCenterline(a, b, DistMinDefault, MinCutLengthDefault, multi, coords) :
                    /\ r.kind = "raise"
                    /\ perr' = r.exc
    /\ pc' = "error" /\ calls' = calls + 1
    /\ UNCHANGED <<emps, crs, cuts, segmented, opened, records, pk>> /\ Quiet

PairsDone ==
    /\ pc = "cuts" /\ pk > Len(PairList(Len(emps)))
    /\ pc' = "segment" /\ pk' = 1
    /\ UNCHANGED <<emps, crs, cuts, segmented, opened, records, perr, calls>> /\ Quiet

\* lines 60-64, one footprint: segmented by the cuts that intersect it
Segment ==
    /\ pc = "segment" /\ pk <= Len(emps)
    /\ LET poly == Atoms(emps[pk])
           relevant == SelectSeq(cuts, LAMBDA c : Intersects(poly, c))
       IN  \E seg \in SegmentEmp(poly, relevant) : segmented' = Append(segmented, seg)
    /\ pk' = pk + 1
    /\ UNCHANGED <<emps, crs, cuts, opened, records, pc, perr, calls>> /\ Quiet

\* line 67: the output file is opened
OpenOutput ==
    /\ pc = "segment" /\ pk > Len(emps)
    /\ opened' = TRUE /\ pc' = "write" /\ pk' = 1
    /\ UNCHANGED <<emps, crs, cuts, segmented, records, perr, calls>> /\ Quiet

\* lines 68-69, one record
WriteRecord ==
    /\ pc = "write" /\ pk <= Min2(Len(paths), Len(segmented))
    /\ records' = Append(records, [geometry |-> segmented[pk], image |-> ImageName(paths[pk])])
    /\ pk' = pk + 1
    /\ UNCHANGED <<emps, crs, cuts, segmented, opened, pc, perr, calls>> /\ Quiet

Finish ==
    /\ pc = "write" /\ pk > Min2(Len(paths), Len(segmented))
    /\ pc' = "done"
    /\ UNCHANGED <<emps, crs, cuts, segmented, opened, records, perr, pk, calls>> /\ Quiet

Next ==
    \/ ReadMask \/ ReadMaskRaises \/ ReadDone
    \/ PairApart \/ PairCut \/ PairCutRaises \/ PairsDone
    \/ Segment \/ OpenOutput \/ WriteRecord \/ Finish

Spec == Init /\ [][Next]_vars

\* every pair of footprints has an empty intersection
PairwiseApart == \A i \in 1 .. Len(emps) : \A j \in 1 .. Len(emps) : i # j => IsEmpty(Overlap(emps[i], emps[j]))

\* (C2) Non-overlapping output as claimed: once every footprint is segmented and
\* written, no two output polygons share interior area.
OutputsDisjoint ==
    pc = "done" => \A i \in 1 .. Len(segmented) : \A j \in 1 .. Len(segmented) :
                      i # j => segmented[i] \cap segmented[j] = {}

\* (C6) No-overlap case: once all footprints are read and they are pairwise disjoint,
\* no cut is ever produced, _compute_centerline is never called, nothing raises, and
\* the records written are the input footprints, unchanged, one per image in input order.
NoOverlapUnchanged ==
    (pc \notin {"read", "idle"} /\ Len(emps) = Len(paths) /\ PairwiseApart) =>
        /\ cuts = <<>> /\ calls = 0 /\ pc # "error"
        /\ \A k \in 1 .. Len(segmented) : segmented[k] = Atoms(emps[k])
        /\ \A k \in 1 .. Len(records) : records[k] = [geometry |-> Atoms(emps[k]), image |-> ImageName(paths[k])]
        /\ (pc = "done" => Len(records) = Len(paths))

\* two disjoint footprints, written out
ApartWritten == pc = "done" /\ Len(emps) >= 2 /\ PairwiseApart /\ Len(records) = Len(paths)

\* (C8) NoFootprintFound aborts: when some mask, at any position, holds no polygon,
\* the run never gets past reading; it ends by raising ValueError, with no cut
\* computed, the output file never opened and no record written.
NoFootprintAborts ==
    (pc # "idle" /\ \E k \in 1 .. Len(masks) : masks[k] = <<>>) =>
        /\ pc \in {"read", "error"}
        /\ (pc = "error" => perr = "ValueError")
        /\ cuts = <<>> /\ calls = 0 /\ ~opened /\ records = <<>>

\* the second mask holds no polygon: raised after the first was read
SecondMaskEmpty == pc = "error" /\ perr = "ValueError" /\ Len(masks) >= 2 /\ masks[1] # <<>> /\ masks[2] = <<>> /\ Len(emps) = 1

\* ------------------------------------ specification: _compute_centerline
CenInit ==
    /\ ca \in Footprints /\ cb \in Footprints
    /\ ~IsEmpty(Overlap(ca, cb))
    /\ cdist \in 1 .. MaxDist
    /\ cminlen \in 0 .. MaxMinLen
    /\ cres = NotCalled
    /\ SegIdle /\ IdemIdle /\ DenIdle /\ PipeIdle

\* the call returns a LineString
CenReturn ==
    /\ cres.kind = "none"
    /\ \E multi \in VoronoiOutputs(Overlap(ca, cb)) : \E coords \in Orderings(BoundaryPoints(ca, cb)) :
          /\ cres' \in ComputeCenterline(ca, cb, cdist, cminlen, multi, coords)
          /\ cres'.kind = "LineString"
    /\ UNCHANGED <<ca, cb, cdist, cminlen, segVars, idemVars, denVars, pipeVars>>

\* the call raises
CenRaise ==
    /\ cres.kind = "none"
    /\ \E multi \in VoronoiOutputs(Overlap(ca, cb)) : \E coords \in Orderings(BoundaryPoints(ca, cb)) :
          /\ cres' \in ComputeCenterline(ca, cb, cdist, cminlen, multi, coords)
          /\ cres'.kind = "raise"
    /\ UNCHANGED <<ca, cb, cdist, cminlen, segVars, idemVars, denVars, pipeVars>>

CenNext == CenReturn \/ CenRaise
SpecCenterline == CenInit /\ [][CenNext]_vars

\* squared distance of two samples <<a, b, n>>, as numerator and denominator
SampleSqNum(s, t) ==
    (s[1] * t[3] - t[1] * s[3]) * (s[1] * t[3] - t[1] * s[3]) + (s[2] * t[3] - t[2] * s[3]) * (s[2] * t[3] - t[2] * s[3])
SampleSqDen(s, t) == s[3] * t[3] * s[3] * t[3]

\* u and v are two of the samples, and no two samples lie farther apart
IsFarthestPair(u, v, pts) ==
    /\ \E i \in 1 .. Len(pts) : \E j \in 1 .. Len(pts) : i # j /\ pts[i] = u /\ pts[j] = v
    /\ \A i \in 1 .. Len(pts) : \A j \in 1 .. Len(pts) :
          SampleSqNum(pts[i], pts[j]) * SampleSqDen(u, v) <= SampleSqNum(u, v) * SampleSqDen(pts[i], pts[j])

\* (C1) Fallback totality as claimed: for footprints with a non-empty intersection,
\* _compute_centerline never raises; it returns a LineString of at least two points.
FallbackTotality ==
    cres.kind # "none" => (cres.kind = "LineString" /\ Len(cres.line) >= 2)

\* (C9) Endpoints without crossing points as claimed: when the footprints overlap
\* in a polygon and their boundaries share no point, the call does not raise and
\* (u, v) is a pair of samples of the overlap of greatest squared distance.
FarthestPairWithoutCrossings ==
    (cres.kind # "none" /\ GeomType(Overlap(ca, cb)) = "Polygon" /\ BoundaryPoints(ca, cb) = {}) =>
        /\ cres.kind = "LineString"
        /\ IsFarthestPair(cres.u, cres.v, DensifyPolygon(Exterior(Overlap(ca, cb)), cdist))

\* (C10) Endpoints from crossing points as claimed: when the boundaries cross in a
\* single point p, u = v = p; when they cross in two or more points, u and v are
\* the first two of them and differ.
EndpointsFromCrossings ==
    (cres.kind # "none" /\ GeomType(Overlap(ca, cb)) = "Polygon") =>
        /\ (Cardinality(BoundaryPoints(ca, cb)) = 1 =>
              \A p \in BoundaryPoints(ca, cb) : cres.u = p /\ cres.v = p)
        /\ (Cardinality(BoundaryPoints(ca, cb)) >= 2 =>
              cres.u = cres.coords[1] /\ cres.v = cres.coords[2] /\ cres.u # cres.v)

\* ------------------------- specification: _segment_emp applied twice
\* the cut lists given to both passes: no cut, one cut, two cuts
IdemCutLists == {<<>>} \cup {<<c>> : c \in CutLines} \cup {<<c, d>> : c \in CutLines, d \in CutLines}

IdemInit ==
    /\ iemp \in {Atoms(Rect(0, 0, w, h)) : w \in 1 .. GridN, h \in 1 .. GridN}
    /\ icuts \in IdemCutLists
    /\ ires1 = {} /\ ires2 = {} /\ ipc = "start"
    /\ SegIdle /\ DenIdle /\ CenIdle /\ PipeIdle

\* seg = _segment_emp(emp, cuts)
IdemFirst ==
    /\ ipc = "start"
    /\ ires1' \in SegmentEmp(iemp, icuts)
    /\ ipc' = "once"
    /\ UNCHANGED <<iemp, icuts, ires2, segVars, denVars, cenVars, pipeVars>>

\* seg2 = _segment_emp(seg, cuts)
IdemSecond ==
    /\ ipc = "once"
    /\ ires2' \in SegmentEmp(ires1, icuts)
    /\ ipc' = "twice"
    /\ UNCHANGED <<iemp, icuts, ires1, segVars, denVars, cenVars, pipeVars>>

IdemNext == IdemFirst \/ IdemSecond
SpecIdem == IdemInit /\ [][IdemNext]_vars

\* (C4) Idempotence of segmentation as claimed: for any polygon and any cut list,
\* segmenting the segmented polygon again with the same list returns it unchanged.
SegmentationIdempotent == ipc = "twice" => ires2 = ires1

\* (C4, amended) For a cut list of at most one cut, segmenting the segmented
\* polygon again with the same list returns it unchanged.
SegmentationIdempotentOneCut == (ipc = "twice" /\ Len(icuts) <= 1) => ires2 = ires1

\* one cut that did split the polygon, applied a second time
OneCutAppliedTwice == ipc = "twice" /\ Len(icuts) = 1 /\ ires1 # iemp /\ ires2 = ires1

====
